---- MODULE Spec2Model ----
(***************************************************************************)
(* Model of the API key pool (ApiKeyPool), of the retrying request         *)
(* pipeline built on it (OpenAIClient._make_request / transcribe_audio),   *)
(* of the audio splitter (AudioSplitter) and of the meeting service        *)
(* (MeetingService) that drives them.                                      *)
(*                                                                         *)
(* The specifications share the variables:                                 *)
(*   SpecPool    - the pool's public methods called in any order by an     *)
(*                 arbitrary caller;                                       *)
(*   Spec        - NumFlows pipeline calls running against one pool, every *)
(*                 pool method executing as one step (the body of a pool   *)
(*                 method holds no await besides taking the lock);         *)
(*   SpecThreads - the same scoped acquisitions run by AsyncWorker         *)
(*                 threads, each with an event loop of its own, sharing    *)
(*                 the pool and its asyncio.Lock;                          *)
(*   SpecLive    - Spec with every call in progress taking its steps;      *)
(*   SpecSplit   - one call of split_audio_file on a WAV file;             *)
(*   SpecMeeting - start_meeting, stop_meeting and process_meeting, the    *)
(*                 latter splitting the recording and running its          *)
(*                 transcription and report calls through the pipeline.    *)
(* Secrets configured in the environment are taken to be pairwise          *)
(* distinct; the pool looks credentials up by secret, as the code does.    *)
(***************************************************************************)
EXTENDS Integers, Sequences, FiniteSets, TLC

\* ------------------------------------------------------------------ bounds
MaxKeys == 3
MaxAttempts == 3
NumFlows == 2
MaxCalls == 2
MaxOps == 5
MaxRounds == 2
SplitSlack == 1
MaxFullChunks == 3
MaxMeetings == 2
MaxProcessed == 1
MaxStat == 1
MaxWords == 1

\* --------------------------------------------------------------- constants
NoKey == "None"
NotFound == 0 - 1
UnknownKey == "sk-unknown"
KeyNames == <<"sk-1", "sk-2", "sk-3">>

VARIABLES
    keys,            \* ApiKeyPool._keys : index -> ApiKeyInfo
    retry_attempts,  \* OpenAIClient.retry_attempts
    pc,              \* position of every flow / worker
    attempt,         \* loop variable `attempt` of every flow
    api_key,         \* secret bound by `async with acquire_key() as api_key`
    used_keys,       \* local set used_keys of every flow
    last_exception,  \* local last_exception of every flow
    outcome,         \* how the flow's current call ended
    resp,            \* responses received by the current call, in order
    calls,           \* number of pipeline calls started so far
    held,            \* index whose active_requests the flow's acquire raised
    lastCall,        \* SpecPool: the last pool method called and its result
    nops,            \* SpecPool: number of pool methods called
    pureAcq,         \* SpecPool: acquires so far if nothing else was called
    healed,          \* SpecPool: indices blocked earlier and unblocked since
    locked,          \* SpecThreads: asyncio.Lock._locked
    reg,             \* SpecThreads: <<index, active_requests>> a worker read
    rounds,          \* SpecThreads: acquisitions and reads a worker has begun
    split,           \* one run of AudioSplitter.split_audio_file
    meetings,        \* MeetingRepository._meetings, by order of creation
    current,         \* MeetingRepository._current_meeting (0: None)
    recordings,      \* RecordingRepository._recordings, by order of saving
    is_recording,    \* AudioRecorder.is_recording
    proc,            \* the process_meeting call in progress, or the last one
    reports,         \* report files written by StorageService.save_report
    boot,            \* the process environment and how ApiKeyPool() ended
    tries            \* per flow: the credential each attempt of the call
                     \* acquired, and whether a request went out on it

vars == <<keys, retry_attempts, pc, attempt, api_key, used_keys,
          last_exception, outcome, resp, calls, held, lastCall, nops,
          pureAcq, healed, locked, reg, rounds, split, meetings, current,
          recordings, is_recording, proc, reports, boot, tries>>

flowVars == <<retry_attempts, pc, attempt, api_key, used_keys,
              last_exception, outcome, resp, calls, held>>
flowVars_but_pc == <<retry_attempts, attempt, api_key, used_keys,
                     last_exception, outcome, resp, calls, held>>
poolGhost == <<lastCall, nops, pureAcq, healed>>
threadVars == <<locked, reg, rounds>>
meetingVars == <<meetings, current, recordings, is_recording, proc, reports>>
serviceVars == <<split, meetingVars>>
auxVars == <<boot, tries>>

Flows == 1..NumFlows

Max(a, b) == IF a >= b THEN a ELSE b
Min(a, b) == IF a <= b THEN a ELSE b

\* ------------------------------------------------------------ the key pool
\* ApiKeyInfo(key, index) with its dataclass defaults.
ApiKeyInfo(key, index) ==
    [key |-> key, index |-> index, active_requests |-> 0,
     total_requests |-> 0, failed_requests |-> 0, is_blocked |-> FALSE]

\* _load_keys with n non-blank numbered keys OPENAI_API_KEY_1..n.
LoadKeys(n) == [i \in 0..(n - 1) |-> ApiKeyInfo(KeyNames[i + 1], i)]

\* A value os.getenv returns: None when the variable is unset, else a string
\* written here as its text without surrounding whitespace (body) and
\* whether whitespace surrounds it (pad).
Unset == [set |-> FALSE, body |-> "", pad |-> FALSE]
FallbackName == "sk-0"
EnvValues(secret) ==
    {Unset} \cup {[set |-> TRUE, body |-> b, pad |-> p] :
                      b \in {"", secret}, p \in BOOLEAN}

\* str.strip(): the text without its surrounding whitespace.
Strip(v) == v.body

\* `if key and key.strip()`: neither None, nor empty, nor whitespace only.
NonBlank(v) == v.set /\ (v.body # "" \/ v.pad) /\ Strip(v) # ""

\* The environments of the process: OPENAI_API_KEY_1..3 and OPENAI_API_KEY.
Environments ==
    {[numbered |-> <<a, b, c>>, fallback |-> d] :
        a \in EnvValues(KeyNames[1]), b \in EnvValues(KeyNames[2]),
        c \in EnvValues(KeyNames[3]), d \in EnvValues(FallbackName)}

\* The environment with numbered keys 1..n set and nothing else.
NumberedEnv(n) ==
    [numbered |-> [i \in 1..MaxKeys |->
                     IF i <= n THEN [set |-> TRUE, body |-> KeyNames[i],
                                     pad |-> FALSE]
                               ELSE Unset],
     fallback |-> Unset]

\* _load_keys: the non-blank numbered keys in order under indices 0, 1, ..;
\* the unnumbered key under index 0 only when no numbered key was loaded.
LoadKeysFromEnv(env) ==
    LET loaded == SelectSeq(env.numbered, NonBlank)
    IN  IF Len(loaded) > 0
        THEN [i \in 0..(Len(loaded) - 1) |->
                 ApiKeyInfo(Strip(loaded[i + 1]), i)]
        ELSE IF NonBlank(env.fallback)
             THEN [i \in {0} |-> ApiKeyInfo(Strip(env.fallback), 0)]
             ELSE [i \in {} |-> ApiKeyInfo("", i)]

\* available_keys of get_available_key: the non-blocked entries, or the
\* whole map when every entry is blocked.
AvailableKeys(ks) ==
    LET unblocked == {i \in DOMAIN ks : ~ks[i].is_blocked}
    IN  IF unblocked = {} THEN DOMAIN ks ELSE unblocked

\* min(available_keys.values(), key=active_requests): Python's min returns
\* the first minimal element, and the dict iterates in index order.
BestKeyHighestIndex(ks) ==
    LET av == AvailableKeys(ks)
    IN  CHOOSE i \in av : \A j \in av :
            \/ ks[i].active_requests < ks[j].active_requests
            \/ ks[i].active_requests = ks[j].active_requests /\ i >= j

BestKeyIgnoresBlocked(ks) ==
    CHOOSE i \in DOMAIN ks : \A j \in DOMAIN ks :
        \/ ks[i].active_requests < ks[j].active_requests
        \/ ks[i].active_requests = ks[j].active_requests /\ i <= j

BestKey(ks) ==
    LET av == AvailableKeys(ks)
    IN  CHOOSE i \in av : \A j \in av :
            \/ ks[i].active_requests < ks[j].active_requests
            \/ ks[i].active_requests = ks[j].active_requests /\ i <= j

GetAvailableKeyUnblocks(ks) ==
    LET b == BestKey(ks)
    IN  [ks EXCEPT ![b].active_requests = @ + 1,
                   ![b].total_requests = @ + 1,
                   ![b].is_blocked = FALSE]

\* The pool after get_available_key; the method returns ks[BestKey(ks)].key.
GetAvailableKey(ks) ==
    LET b == BestKey(ks)
    IN  [ks EXCEPT ![b].active_requests = @ + 1,
                   ![b].total_requests = @ + 1]

\* `for key_info in self._keys.values(): if key_info.key == key`: the first
\* entry holding the secret, NotFound when the loop falls through.
FindKey(ks, key) ==
    LET hits == {i \in DOMAIN ks : ks[i].key = key}
    IN  IF hits = {} THEN NotFound
        ELSE CHOOSE i \in hits : \A j \in hits : i <= j

ReleaseKeyNoFloor(ks, key) ==
    LET i == FindKey(ks, key)
    IN  IF i = NotFound THEN ks
        ELSE [ks EXCEPT ![i].active_requests = @ - 1]

ReleaseKeyNoOp(ks, key) == ks

\* The pool after release_key(key).
ReleaseKey(ks, key) ==
    LET i == FindKey(ks, key)
    IN  IF i = NotFound THEN ks
        ELSE [ks EXCEPT ![i].active_requests = Max(0, @ - 1)]

MarkKeyFailedAlwaysBlocks(ks, key, block_temporarily) ==
    LET i == FindKey(ks, key)
    IN  IF i = NotFound THEN ks
        ELSE [ks EXCEPT ![i].failed_requests = @ + 1,
                        ![i].is_blocked = TRUE]

\* The pool after mark_key_failed(key, block_temporarily).
MarkKeyFailed(ks, key, block_temporarily) ==
    LET i == FindKey(ks, key)
    IN  IF i = NotFound THEN ks
        ELSE [ks EXCEPT ![i].failed_requests = @ + 1,
                        ![i].is_blocked = IF block_temporarily THEN TRUE ELSE @]

UnblockKeyOnlyIdle(ks, key) ==
    LET i == FindKey(ks, key)
    IN  IF i = NotFound THEN ks
        ELSE IF ks[i].is_blocked /\ ks[i].active_requests = 0
             THEN [ks EXCEPT ![i].is_blocked = FALSE]
             ELSE ks

\* The pool after unblock_key(key).
UnblockKey(ks, key) ==
    LET i == FindKey(ks, key)
    IN  IF i = NotFound THEN ks
        ELSE IF ks[i].is_blocked
             THEN [ks EXCEPT ![i].is_blocked = FALSE]
             ELSE ks

Secrets(ks) == {ks[i].key : i \in DOMAIN ks}

\* ------------------------------------------- SpecPool: the pool's methods
InitFlowVars ==
    /\ retry_attempts \in 1..MaxAttempts
    /\ pc = [f \in Flows |-> "idle"]
    /\ attempt = [f \in Flows |-> 0]
    /\ api_key = [f \in Flows |-> NoKey]
    /\ used_keys = [f \in Flows |-> {}]
    /\ last_exception = [f \in Flows |-> "None"]
    /\ outcome = [f \in Flows |-> "None"]
    /\ resp = [f \in Flows |-> <<>>]
    /\ tries = [f \in Flows |-> <<>>]
    /\ calls = 0
    /\ held = [f \in Flows |-> NotFound]

InitPoolGhost ==
    /\ lastCall = [op |-> "init", key |-> NoKey, block |-> FALSE]
    /\ nops = 0
    /\ pureAcq = 0
    /\ healed = {}

InitThreadVars ==
    /\ locked = FALSE
    /\ reg = [f \in Flows |-> <<NotFound, 0>>]
    /\ rounds = [f \in Flows |-> 0]

\* No split_audio_file call is running.
NoSplit == [pc |-> "idle"]

\* No meeting yet, no process_meeting call.
NoMeeting == 0
NoProcess ==
    [pc |-> "idle", meeting_id |-> NoMeeting, audio_files |-> <<>>, i |-> 0,
     transcriptions |-> <<>>, transcription |-> <<>>, is_multipart |-> FALSE,
     sent |-> <<>>, report_calls |-> <<>>, deleted |-> {}, not_deleted |-> {},
     result |-> "None", accepted |-> 0]

InitMeetingVars ==
    /\ meetings = <<>>
    /\ current = NoMeeting
    /\ recordings = <<>>
    /\ is_recording = FALSE
    /\ proc = NoProcess
    /\ reports = {}

InitServiceVars ==
    /\ split = NoSplit
    /\ InitMeetingVars

\* ApiKeyPool.__init__ with 1..MaxKeys configured secrets.
InitKeys ==
    \E n \in 1..MaxKeys :
        /\ keys = LoadKeys(n)
        /\ boot = [env |-> NumberedEnv(n), result |-> "ready"]

InitPool ==
    /\ InitKeys
    /\ InitFlowVars
    /\ retry_attempts = 1
    /\ InitPoolGhost
    /\ InitThreadVars
    /\ InitServiceVars

\* A caller awaits get_available_key().
PoolGet ==
    /\ nops < MaxOps
    /\ keys' = GetAvailableKey(keys)
    /\ lastCall' = [op |-> "get_available_key", key |-> keys[BestKey(keys)].key,
                    block |-> FALSE]
    /\ nops' = nops + 1
    /\ pureAcq' = IF pureAcq = nops THEN pureAcq + 1 ELSE pureAcq
    /\ UNCHANGED <<auxVars, serviceVars, healed, flowVars, threadVars>>

\* A caller awaits release_key(key), for a secret of the pool or a foreign one.
PoolRelease(key) ==
    /\ nops < MaxOps
    /\ keys' = ReleaseKey(keys, key)
    /\ lastCall' = [op |-> "release_key", key |-> key, block |-> FALSE]
    /\ nops' = nops + 1
    /\ UNCHANGED <<auxVars, serviceVars, pureAcq, healed, flowVars, threadVars>>

\* A caller awaits mark_key_failed(key, block_temporarily).
PoolMarkFailed(key, block_temporarily) ==
    /\ nops < MaxOps
    /\ keys' = MarkKeyFailed(keys, key, block_temporarily)
    /\ lastCall' = [op |-> "mark_key_failed", key |-> key,
                    block |-> block_temporarily]
    /\ nops' = nops + 1
    /\ healed' = IF block_temporarily THEN healed \ {FindKey(keys, key)}
                 ELSE healed
    /\ UNCHANGED <<auxVars, serviceVars, pureAcq, flowVars, threadVars>>

\* A caller awaits unblock_key(key).
PoolUnblock(key) ==
    /\ nops < MaxOps
    /\ keys' = UnblockKey(keys, key)
    /\ lastCall' = [op |-> "unblock_key", key |-> key, block |-> FALSE]
    /\ nops' = nops + 1
    /\ healed' = IF FindKey(keys, key) # NotFound /\ keys[FindKey(keys, key)].is_blocked
                 THEN healed \cup {FindKey(keys, key)}
                 ELSE healed
    /\ UNCHANGED <<auxVars, serviceVars, pureAcq, flowVars, threadVars>>

NextPool ==
    \/ PoolGet
    \/ \E key \in Secrets(keys) \cup {UnknownKey} : PoolRelease(key)
    \/ \E key \in Secrets(keys) \cup {UnknownKey}, b \in BOOLEAN :
           PoolMarkFailed(key, b)
    \/ \E key \in Secrets(keys) \cup {UnknownKey} : PoolUnblock(key)

SpecPool == InitPool /\ [][NextPool]_vars

\* ------------------------------ SpecBoot: the pool built from the environment
\* Before ApiKeyPool() runs: `self._keys = {}` and any environment.
InitBoot ==
    /\ \E env \in Environments : boot = [env |-> env, result |-> "init"]
    /\ keys = [i \in {} |-> ApiKeyInfo("", i)]
    /\ InitFlowVars
    /\ retry_attempts = 1
    /\ InitPoolGhost
    /\ InitThreadVars
    /\ InitServiceVars

ConstructWithoutCheck ==
    /\ boot.result = "init"
    /\ keys' = LoadKeysFromEnv(boot.env)
    /\ boot' = [boot EXCEPT !.result = "ready"]
    /\ UNCHANGED <<tries, serviceVars, poolGhost, flowVars, threadVars>>

\* ApiKeyPool.__init__: load the keys, raise when none was loaded.
Construct ==
    /\ boot.result = "init"
    /\ keys' = LoadKeysFromEnv(boot.env)
    /\ boot' = [boot EXCEPT !.result =
                    IF DOMAIN keys' = {} THEN "ApiKeyNotFoundException"
                                         ELSE "ready"]
    /\ UNCHANGED <<tries, serviceVars, poolGhost, flowVars, threadVars>>

\* Entering `async with pool.acquire_key()`: get_available_key returns None
\* on an empty map, and acquire_key raises ApiKeyNotFoundException then.
PoolAcquireKey ==
    /\ boot.result = "ready"
    /\ nops < MaxOps
    /\ IF DOMAIN keys = {}
       THEN /\ lastCall' = [op |-> "acquire_key", key |-> NoKey,
                            block |-> FALSE]
            /\ UNCHANGED <<keys, pureAcq>>
       ELSE /\ keys' = GetAvailableKey(keys)
            /\ lastCall' = [op |-> "acquire_key",
                            key |-> keys[BestKey(keys)].key, block |-> FALSE]
            /\ pureAcq' = IF pureAcq = nops THEN pureAcq + 1 ELSE pureAcq
    /\ nops' = nops + 1
    /\ UNCHANGED <<auxVars, serviceVars, healed, flowVars, threadVars>>

\* Leaving the `async with` block of acquire_key: release_key(key).
PoolLeaveKey(key) ==
    /\ boot.result = "ready"
    /\ PoolRelease(key)

NextBoot ==
    \/ Construct
    \/ PoolAcquireKey
    \/ \E key \in Secrets(keys) : PoolLeaveKey(key)

SpecBoot == InitBoot /\ [][NextBoot]_vars

\* ------------------------------- Spec: the retrying request pipeline
\* _make_request and transcribe_audio run the same loop; a flow is one
\* worker issuing such calls.  pc: "idle" (no call running), "loop" (top of
\* `for attempt in range(retry_attempts)`), "request" (awaiting the HTTP
\* response inside `async with acquire_key()`), "sleep" (in asyncio.sleep,
\* inside the scoped block when api_key is bound, in an except handler
\* otherwise), "done" (the call returned or raised).
Init ==
    /\ InitKeys
    /\ InitFlowVars
    /\ InitPoolGhost
    /\ InitThreadVars
    /\ InitServiceVars

\* What leaving `async with acquire_key() as api_key` does to the pool: the
\* finally clause of acquire_key awaits release_key(key).
ExitScopeNoRelease(ks, key) == ks

ExitScope(ks, key) == IF key = NoKey THEN ks ELSE ReleaseKey(ks, key)

\* A worker enters _make_request: last_exception = None, used_keys = set().
StartCall(f) ==
    /\ pc[f] = "idle"
    /\ calls < MaxCalls
    /\ pc' = [pc EXCEPT ![f] = "loop"]
    /\ calls' = calls + 1
    /\ attempt' = [attempt EXCEPT ![f] = 0]
    /\ used_keys' = [used_keys EXCEPT ![f] = {}]
    /\ last_exception' = [last_exception EXCEPT ![f] = "None"]
    /\ outcome' = [outcome EXCEPT ![f] = "None"]
    /\ resp' = [resp EXCEPT ![f] = <<>>]
    /\ tries' = [tries EXCEPT ![f] = <<>>]
    /\ UNCHANGED <<boot, serviceVars, keys, retry_attempts, api_key, held, poolGhost, threadVars>>

AcquireKeyAlwaysSends(f) ==
    /\ pc[f] = "loop"
    /\ attempt[f] < retry_attempts
    /\ LET b == BestKey(keys)
           k == keys[b].key
       IN  /\ keys' = GetAvailableKey(keys)
           /\ held' = [held EXCEPT ![f] = b]
           /\ api_key' = [api_key EXCEPT ![f] = k]
           /\ tries' = [tries EXCEPT ![f] = Append(@, [key |-> k, sent |-> TRUE])]
           /\ pc' = [pc EXCEPT ![f] = "request"]
           /\ used_keys' = [used_keys EXCEPT ![f] = @ \cup {k}]
    /\ UNCHANGED <<boot, serviceVars, retry_attempts, attempt, last_exception, outcome, resp,
                   calls, poolGhost, threadVars>>

\* One loop iteration up to its first await: acquire_key() takes a
\* credential; a credential already in used_keys sends nothing and sleeps
\* with the credential held, a new one is recorded and the request is sent.
AcquireKey(f) ==
    /\ pc[f] = "loop"
    /\ attempt[f] < retry_attempts
    /\ LET b == BestKey(keys)
           k == keys[b].key
       IN  /\ keys' = GetAvailableKey(keys)
           /\ held' = [held EXCEPT ![f] = b]
           /\ api_key' = [api_key EXCEPT ![f] = k]
           /\ tries' = [tries EXCEPT ![f] =
                           Append(@, [key |-> k, sent |-> k \notin used_keys[f]])]
           /\ IF k \in used_keys[f]
              THEN /\ pc' = [pc EXCEPT ![f] = "sleep"]
                   /\ UNCHANGED used_keys
              ELSE /\ pc' = [pc EXCEPT ![f] = "request"]
                   /\ used_keys' = [used_keys EXCEPT ![f] = @ \cup {k}]
    /\ UNCHANGED <<boot, serviceVars, retry_attempts, attempt, last_exception, outcome, resp,
                   calls, poolGhost, threadVars>>

\* The for loop ran out: raise ApiException(...last_exception...).
LoopExhausted(f) ==
    /\ pc[f] = "loop"
    /\ attempt[f] = retry_attempts
    /\ pc' = [pc EXCEPT ![f] = "done"]
    /\ outcome' = [outcome EXCEPT ![f] = "ApiException"]
    /\ UNCHANGED <<auxVars, serviceVars, keys, retry_attempts, attempt, api_key, used_keys,
                   last_exception, resp, calls, held, poolGhost, threadVars>>

\* response.status == 429: mark_key_failed(api_key, block_temporarily=True);
\* with attempts left sleep inside the scoped block, else raise
\* ApiRateLimitException, which leaves the block and is re-raised by the
\* handler of the last attempt.
Respond429(f) ==
    /\ pc[f] = "request"
    /\ resp' = [resp EXCEPT ![f] = Append(@, "429")]
    /\ IF attempt[f] < retry_attempts - 1
       THEN /\ keys' = MarkKeyFailed(keys, api_key[f], TRUE)
            /\ pc' = [pc EXCEPT ![f] = "sleep"]
            /\ UNCHANGED <<api_key, held, last_exception, outcome>>
       ELSE /\ keys' = ExitScope(MarkKeyFailed(keys, api_key[f], TRUE), api_key[f])
            /\ api_key' = [api_key EXCEPT ![f] = NoKey]
            /\ held' = [held EXCEPT ![f] = NotFound]
            /\ last_exception' = [last_exception EXCEPT ![f] = "ApiRateLimitException"]
            /\ outcome' = [outcome EXCEPT ![f] = "ApiRateLimitException"]
            /\ pc' = [pc EXCEPT ![f] = "done"]
    /\ UNCHANGED <<auxVars, serviceVars, retry_attempts, attempt, used_keys, calls, poolGhost, threadVars>>

\* The handler `except (ApiRateLimitException, ApiRequestException)` and the
\* handler `except aiohttp.ClientError`, entered with the scoped block left:
\* record last_exception, then sleep and continue when attempts are left,
\* raise otherwise.
HandlerFailsAtOnce(f) ==
    /\ last_exception' = [last_exception EXCEPT ![f] = "ApiRequestException"]
    /\ outcome' = [outcome EXCEPT ![f] = "ApiRequestException"]
    /\ pc' = [pc EXCEPT ![f] = "done"]

Handler(f) ==
    /\ last_exception' = [last_exception EXCEPT ![f] = "ApiRequestException"]
    /\ IF attempt[f] < retry_attempts - 1
       THEN /\ pc' = [pc EXCEPT ![f] = "sleep"]
            /\ UNCHANGED outcome
       ELSE /\ outcome' = [outcome EXCEPT ![f] = "ApiRequestException"]
            /\ pc' = [pc EXCEPT ![f] = "done"]

\* response.status >= 400 (not 429): mark_key_failed(api_key) and raise
\* ApiRequestException out of the scoped block into the handler.
RespondError(f) ==
    /\ pc[f] = "request"
    /\ resp' = [resp EXCEPT ![f] = Append(@, "500")]
    /\ keys' = ExitScope(MarkKeyFailed(keys, api_key[f], FALSE), api_key[f])
    /\ api_key' = [api_key EXCEPT ![f] = NoKey]
    /\ held' = [held EXCEPT ![f] = NotFound]
    /\ Handler(f)
    /\ UNCHANGED <<auxVars, serviceVars, retry_attempts, attempt, used_keys, calls, poolGhost, threadVars>>

\* session.request raises aiohttp.ClientError: the scoped block is left
\* without any bookkeeping call and the ClientError handler runs.
TransportError(f) ==
    /\ pc[f] = "request"
    /\ resp' = [resp EXCEPT ![f] = Append(@, "ClientError")]
    /\ keys' = ExitScope(keys, api_key[f])
    /\ api_key' = [api_key EXCEPT ![f] = NoKey]
    /\ held' = [held EXCEPT ![f] = NotFound]
    /\ Handler(f)
    /\ UNCHANGED <<auxVars, serviceVars, retry_attempts, attempt, used_keys, calls, poolGhost, threadVars>>

\* Any other status: unblock_key(api_key), return the decoded body.
RespondOk(f) ==
    /\ pc[f] = "request"
    /\ resp' = [resp EXCEPT ![f] = Append(@, "200")]
    /\ keys' = ExitScope(UnblockKey(keys, api_key[f]), api_key[f])
    /\ api_key' = [api_key EXCEPT ![f] = NoKey]
    /\ held' = [held EXCEPT ![f] = NotFound]
    /\ outcome' = [outcome EXCEPT ![f] = "success"]
    /\ pc' = [pc EXCEPT ![f] = "done"]
    /\ UNCHANGED <<auxVars, serviceVars, retry_attempts, attempt, used_keys, last_exception, calls,
                   poolGhost, threadVars>>

\* asyncio.sleep returns and `continue` runs: the scoped block, if the sleep
\* was inside it, is left, and the loop moves to the next attempt.
WakeUpSameAttempt(f) ==
    /\ pc[f] = "sleep"
    /\ keys' = ExitScope(keys, api_key[f])
    /\ api_key' = [api_key EXCEPT ![f] = NoKey]
    /\ held' = [held EXCEPT ![f] = NotFound]
    /\ pc' = [pc EXCEPT ![f] = "loop"]
    /\ UNCHANGED <<auxVars, serviceVars, retry_attempts, attempt, used_keys, last_exception,
                   outcome, resp, calls, poolGhost, threadVars>>

WakeUp(f) ==
    /\ pc[f] = "sleep"
    /\ keys' = ExitScope(keys, api_key[f])
    /\ api_key' = [api_key EXCEPT ![f] = NoKey]
    /\ held' = [held EXCEPT ![f] = NotFound]
    /\ attempt' = [attempt EXCEPT ![f] = @ + 1]
    /\ pc' = [pc EXCEPT ![f] = "loop"]
    /\ UNCHANGED <<auxVars, serviceVars, retry_attempts, used_keys, last_exception, outcome, resp,
                   calls, poolGhost, threadVars>>

\* The flow's task is cancelled while it awaits the response or sleeps:
\* CancelledError passes every except clause; the scoped block's finally runs.
Cancel(f) ==
    /\ pc[f] \in {"request", "sleep"}
    /\ keys' = ExitScope(keys, api_key[f])
    /\ api_key' = [api_key EXCEPT ![f] = NoKey]
    /\ held' = [held EXCEPT ![f] = NotFound]
    /\ outcome' = [outcome EXCEPT ![f] = "CancelledError"]
    /\ pc' = [pc EXCEPT ![f] = "done"]
    /\ UNCHANGED <<auxVars, serviceVars, retry_attempts, attempt, used_keys, last_exception, resp,
                   calls, poolGhost, threadVars>>

\* The caller has the result or the exception; the call's frame is gone.
Return(f) ==
    /\ pc[f] = "done"
    /\ pc' = [pc EXCEPT ![f] = "idle"]
    /\ attempt' = [attempt EXCEPT ![f] = 0]
    /\ used_keys' = [used_keys EXCEPT ![f] = {}]
    /\ last_exception' = [last_exception EXCEPT ![f] = "None"]
    /\ outcome' = [outcome EXCEPT ![f] = "None"]
    /\ resp' = [resp EXCEPT ![f] = <<>>]
    /\ tries' = [tries EXCEPT ![f] = <<>>]
    /\ UNCHANGED <<boot, serviceVars, keys, retry_attempts, api_key, calls, held, poolGhost,
                   threadVars>>

Next ==
    \/ \E f \in Flows : StartCall(f)
    \/ \E f \in Flows : AcquireKey(f)
    \/ \E f \in Flows : LoopExhausted(f)
    \/ \E f \in Flows : Respond429(f)
    \/ \E f \in Flows : RespondError(f)
    \/ \E f \in Flows : TransportError(f)
    \/ \E f \in Flows : RespondOk(f)
    \/ \E f \in Flows : WakeUp(f)
    \/ \E f \in Flows : Cancel(f)
    \/ \E f \in Flows : Return(f)

Spec == Init /\ [][Next]_vars

\* Every step of a call in progress.  The event loop resumes a runnable
\* coroutine, a sleep ends after its delay, and a request ends with a
\* response, an error or the session's timeout: a call that can take a step
\* eventually takes one.
FlowStep(f) ==
    \/ AcquireKey(f)
    \/ LoopExhausted(f)
    \/ Respond429(f)
    \/ RespondError(f)
    \/ TransportError(f)
    \/ RespondOk(f)
    \/ WakeUp(f)
    \/ Cancel(f)

SpecLive == Spec /\ \A f \in Flows : WF_vars(FlowStep(f))

\* ------------------- SpecHeal: calls without end on a provider that heals
\* The flows issue call after call, and the provider answers 429 only while
\* no credential is blocked: every request after a block succeeds.  No
\* method reads total_requests or failed_requests to decide anything, so
\* this specification counts them up to MaxStat only, and calls up to
\* MaxCalls.
Capped(ks) ==
    [i \in DOMAIN ks |->
        [ks[i] EXCEPT !.total_requests = Min(@, MaxStat),
                      !.failed_requests = Min(@, MaxStat)]]

\* StartCall, as often as the flow likes.
ServeStartCall(f) ==
    /\ pc[f] = "idle"
    /\ pc' = [pc EXCEPT ![f] = "loop"]
    /\ calls' = Min(calls + 1, MaxCalls)
    /\ attempt' = [attempt EXCEPT ![f] = 0]
    /\ used_keys' = [used_keys EXCEPT ![f] = {}]
    /\ last_exception' = [last_exception EXCEPT ![f] = "None"]
    /\ outcome' = [outcome EXCEPT ![f] = "None"]
    /\ resp' = [resp EXCEPT ![f] = <<>>]
    /\ tries' = [tries EXCEPT ![f] = <<>>]
    /\ UNCHANGED <<boot, serviceVars, keys, retry_attempts, api_key, held,
                   poolGhost, threadVars>>

\* AcquireKey.
ServeAcquireKey(f) ==
    /\ pc[f] = "loop"
    /\ attempt[f] < retry_attempts
    /\ LET b == BestKey(keys)
           k == keys[b].key
       IN  /\ keys' = Capped(GetAvailableKey(keys))
           /\ held' = [held EXCEPT ![f] = b]
           /\ api_key' = [api_key EXCEPT ![f] = k]
           /\ tries' = [tries EXCEPT ![f] =
                           Append(@, [key |-> k, sent |-> k \notin used_keys[f]])]
           /\ IF k \in used_keys[f]
              THEN /\ pc' = [pc EXCEPT ![f] = "sleep"]
                   /\ UNCHANGED used_keys
              ELSE /\ pc' = [pc EXCEPT ![f] = "request"]
                   /\ used_keys' = [used_keys EXCEPT ![f] = @ \cup {k}]
    /\ UNCHANGED <<boot, serviceVars, retry_attempts, attempt, last_exception,
                   outcome, resp, calls, poolGhost, threadVars>>

\* Respond429, while no credential of the pool is blocked.
ServeRespond429(f) ==
    /\ pc[f] = "request"
    /\ \A i \in DOMAIN keys : ~keys[i].is_blocked
    /\ resp' = [resp EXCEPT ![f] = Append(@, "429")]
    /\ IF attempt[f] < retry_attempts - 1
       THEN /\ keys' = Capped(MarkKeyFailed(keys, api_key[f], TRUE))
            /\ pc' = [pc EXCEPT ![f] = "sleep"]
            /\ UNCHANGED <<api_key, held, last_exception, outcome>>
       ELSE /\ keys' = Capped(ExitScope(MarkKeyFailed(keys, api_key[f], TRUE),
                                       api_key[f]))
            /\ api_key' = [api_key EXCEPT ![f] = NoKey]
            /\ held' = [held EXCEPT ![f] = NotFound]
            /\ last_exception' = [last_exception EXCEPT ![f] = "ApiRateLimitException"]
            /\ outcome' = [outcome EXCEPT ![f] = "ApiRateLimitException"]
            /\ pc' = [pc EXCEPT ![f] = "done"]
    /\ UNCHANGED <<auxVars, serviceVars, retry_attempts, attempt, used_keys,
                   calls, poolGhost, threadVars>>

\* Every step of a flow that serves calls without end.
ServeStep(f) ==
    \/ ServeStartCall(f)
    \/ ServeAcquireKey(f)
    \/ LoopExhausted(f)
    \/ ServeRespond429(f)
    \/ RespondOk(f)
    \/ WakeUp(f)
    \/ Return(f)

NextHeal ==
    \/ \E f \in Flows : ServeStartCall(f)
    \/ \E f \in Flows : ServeAcquireKey(f)
    \/ \E f \in Flows : LoopExhausted(f)
    \/ \E f \in Flows : ServeRespond429(f)
    \/ \E f \in Flows : RespondOk(f)
    \/ \E f \in Flows : WakeUp(f)
    \/ \E f \in Flows : Return(f)

\* The event loop resumes every flow that can take a step, and every flow
\* that is idle issues another call.
SpecHeal ==
    /\ Init
    /\ [][NextHeal]_vars
    /\ \A f \in Flows : WF_vars(ServeStep(f))

\* ------------------------- SpecThreads: flows as AsyncWorker threads
\* Every AsyncWorker is a QThread running its coroutine on an event loop of
\* its own (main_window.py), and all of them share the one ApiKeyPool made in
\* main.py.  asyncio.Lock is not thread-safe: its acquire tests _locked and
\* sets it in two steps, and threads interleave between the bytecodes of a
\* pool method.  A worker here runs scoped acquisitions: acquire_key(), the
\* request under it, the bookkeeping call that follows the response, and the
\* release_key() of the finally clause; between them it may read get_stats().
\* pc: "idle", then get_available_key: "a_set" (lock seen free), "a_select"
\* (inside `async with self._lock`), "a_write" (entry selected, its
\* active_requests read), "a_unlock"; "work" (credential held, waiting for
\* the response); then mark_key_failed or unblock_key: "b_set", "b_write",
\* "bs_unlock" (a backoff sleep follows) or "b_unlock" (the block is left);
\* "sleep" (asyncio.sleep inside the scoped block), "unwind" (leaving the
\* block); then release_key: "r_set", "r_read", "r_write", "r_unlock";
\* "error" (RuntimeError raised by Lock.release on a lock already released);
\* "stats" (inside get_stats).
InitThreads ==
    /\ InitKeys
    /\ InitFlowVars
    /\ retry_attempts = 1
    /\ InitPoolGhost
    /\ InitThreadVars
    /\ InitServiceVars

\* Lock.acquire, first half: `if not self._locked`; a worker that finds the
\* lock taken waits for it.
ThreadLockTest(f) ==
    /\ ~locked
    /\ \/ /\ pc[f] = "idle"
          /\ rounds[f] < MaxRounds
          /\ rounds' = [rounds EXCEPT ![f] = @ + 1]
          /\ pc' = [pc EXCEPT ![f] = "a_set"]
       \/ /\ pc[f] = "work"
          /\ pc' \in {[pc EXCEPT ![f] = "r_set"], [pc EXCEPT ![f] = "b_set"]}
          /\ UNCHANGED rounds
       \/ /\ pc[f] \in {"sleep", "unwind"}
          /\ pc' = [pc EXCEPT ![f] = "r_set"]
          /\ UNCHANGED rounds
    /\ UNCHANGED <<auxVars, serviceVars, keys, retry_attempts, attempt, api_key, used_keys,
                   last_exception, outcome, resp, calls, held, poolGhost,
                   locked, reg>>

\* Lock.acquire, second half: `self._locked = True`.
ThreadLockSet(f) ==
    /\ pc[f] \in {"a_set", "r_set", "b_set"}
    /\ locked' = TRUE
    /\ pc' = [pc EXCEPT ![f] = CASE pc[f] = "a_set" -> "a_select"
                                 [] pc[f] = "r_set" -> "r_read"
                                 [] pc[f] = "b_set" -> "b_write"]
    /\ UNCHANGED <<auxVars, serviceVars, keys, flowVars_but_pc, poolGhost, reg, rounds>>

\* get_available_key: min(...) selects the entry and `+= 1` loads its
\* active_requests.
ThreadSelect(f) ==
    /\ pc[f] = "a_select"
    /\ reg' = [reg EXCEPT ![f] = <<BestKey(keys), keys[BestKey(keys)].active_requests>>]
    /\ pc' = [pc EXCEPT ![f] = "a_write"]
    /\ UNCHANGED <<auxVars, serviceVars, keys, flowVars_but_pc, poolGhost, locked, rounds>>

\* get_available_key: `+= 1` stores active_requests; total_requests += 1;
\* the secret is what the method returns.
ThreadIncrement(f) ==
    /\ pc[f] = "a_write"
    /\ keys' = [keys EXCEPT ![reg[f][1]].active_requests = reg[f][2] + 1,
                            ![reg[f][1]].total_requests = @ + 1]
    /\ held' = [held EXCEPT ![f] = reg[f][1]]
    /\ api_key' = [api_key EXCEPT ![f] = keys[reg[f][1]].key]
    /\ pc' = [pc EXCEPT ![f] = "a_unlock"]
    /\ UNCHANGED <<auxVars, serviceVars, retry_attempts, attempt, used_keys, last_exception, outcome,
                   resp, calls, poolGhost, threadVars>>

\* release_key: the entry is found and its active_requests loaded.
ThreadReadActive(f) ==
    /\ pc[f] = "r_read"
    /\ reg' = [reg EXCEPT ![f] = <<FindKey(keys, api_key[f]),
                                   keys[FindKey(keys, api_key[f])].active_requests>>]
    /\ pc' = [pc EXCEPT ![f] = "r_write"]
    /\ UNCHANGED <<auxVars, serviceVars, keys, flowVars_but_pc, poolGhost, locked, rounds>>

\* release_key: active_requests = max(0, loaded value - 1) is stored.
ThreadDecrement(f) ==
    /\ pc[f] = "r_write"
    /\ keys' = [keys EXCEPT ![reg[f][1]].active_requests = Max(0, reg[f][2] - 1)]
    /\ held' = [held EXCEPT ![f] = NotFound]
    /\ api_key' = [api_key EXCEPT ![f] = NoKey]
    /\ pc' = [pc EXCEPT ![f] = "r_unlock"]
    /\ UNCHANGED <<auxVars, serviceVars, retry_attempts, attempt, used_keys, last_exception, outcome,
                   resp, calls, poolGhost, threadVars>>

\* The body of mark_key_failed(api_key, block_temporarily) after a 429 or an
\* error status, or of unblock_key(api_key) after a success.
ThreadBookkeep(f, op) ==
    /\ pc[f] = "b_write"
    /\ keys' = CASE op = "rate_limited" -> MarkKeyFailed(keys, api_key[f], TRUE)
                 [] op = "failed" -> MarkKeyFailed(keys, api_key[f], FALSE)
                 [] op = "succeeded" -> UnblockKey(keys, api_key[f])
    /\ pc' = [pc EXCEPT ![f] = IF op = "rate_limited" THEN "bs_unlock"
                                ELSE "b_unlock"]
    /\ UNCHANGED <<auxVars, serviceVars, flowVars_but_pc, poolGhost, threadVars>>

\* get_stats() / get_total_keys(): a plain method that walks self._keys; it
\* has no `async with self._lock`.
ThreadGetStats(f) ==
    /\ pc[f] = "idle"
    /\ rounds[f] < MaxRounds
    /\ rounds' = [rounds EXCEPT ![f] = @ + 1]
    /\ pc' = [pc EXCEPT ![f] = "stats"]
    /\ UNCHANGED <<auxVars, serviceVars, keys, flowVars_but_pc, poolGhost, locked, reg>>

ThreadStatsReturn(f) ==
    /\ pc[f] = "stats"
    /\ pc' = [pc EXCEPT ![f] = "idle"]
    /\ UNCHANGED <<auxVars, serviceVars, keys, flowVars_but_pc, poolGhost, threadVars>>

\* Lock.release at the end of `async with self._lock`: clears _locked, or
\* raises RuntimeError('Lock is not acquired.') when another worker has
\* cleared it already; raised out of get_available_key the error skips the
\* scoped block, so the increment is never paired with a release; raised out
\* of a bookkeeping call it leaves the scoped block through its finally.
ThreadUnlockKeepsLock(f) ==
    /\ pc[f] \in {"a_unlock", "r_unlock", "b_unlock", "bs_unlock"}
    /\ locked
    /\ UNCHANGED <<auxVars, locked, held, api_key>>
    /\ pc' = [pc EXCEPT ![f] = CASE pc[f] = "a_unlock" -> "work"
                                 [] pc[f] = "r_unlock" -> "idle"
                                 [] pc[f] = "b_unlock" -> "unwind"
                                 [] pc[f] = "bs_unlock" -> "sleep"]
    /\ UNCHANGED <<auxVars, serviceVars, keys, retry_attempts, attempt, used_keys, last_exception,
                   outcome, resp, calls, poolGhost, reg, rounds>>

ThreadUnlock(f) ==
    /\ pc[f] \in {"a_unlock", "r_unlock", "b_unlock", "bs_unlock"}
    /\ IF locked
       THEN /\ locked' = FALSE
            /\ pc' = [pc EXCEPT ![f] = CASE pc[f] = "a_unlock" -> "work"
                                         [] pc[f] = "r_unlock" -> "idle"
                                         [] pc[f] = "b_unlock" -> "unwind"
                                         [] pc[f] = "bs_unlock" -> "sleep"]
            /\ UNCHANGED <<held, api_key>>
       ELSE /\ UNCHANGED locked
            /\ IF pc[f] \in {"b_unlock", "bs_unlock"}
               THEN /\ pc' = [pc EXCEPT ![f] = "unwind"]
                    /\ UNCHANGED <<held, api_key>>
               ELSE /\ pc' = [pc EXCEPT ![f] = "error"]
                    /\ held' = [held EXCEPT ![f] = NotFound]
                    /\ api_key' = [api_key EXCEPT ![f] = NoKey]
    /\ UNCHANGED <<auxVars, serviceVars, keys, retry_attempts, attempt, used_keys, last_exception,
                   outcome, resp, calls, poolGhost, reg, rounds>>

NextThreads ==
    \/ \E f \in Flows : ThreadLockTest(f)
    \/ \E f \in Flows : ThreadLockSet(f)
    \/ \E f \in Flows : ThreadSelect(f)
    \/ \E f \in Flows : ThreadIncrement(f)
    \/ \E f \in Flows : ThreadReadActive(f)
    \/ \E f \in Flows : ThreadDecrement(f)
    \/ \E f \in Flows, op \in {"rate_limited", "failed", "succeeded"} :
           ThreadBookkeep(f, op)
    \/ \E f \in Flows : ThreadGetStats(f)
    \/ \E f \in Flows : ThreadStatsReturn(f)
    \/ \E f \in Flows : ThreadUnlock(f)

SpecThreads == InitThreads /\ [][NextThreads]_vars

\* ------------------------------- SpecSplit: AudioSplitter.split_audio_file
\* One call of split_audio_file on a WAV file.  The file is one the recorder
\* can write: a header followed by nframes frames of sampwidth * nchannels
\* bytes each, or an empty file.  split.pc is "call" (entered), "loop" (at the
\* head of the while loop) or "returned".
MAX_FILE_SIZE_BYTES == 20 * 1024 * 1024
WavHeaderBytes == 44
ChunkFillTenths == 9
MeetingIds == {"", "0f8a1c2e"}


FrameSize(wav) == wav.sampwidth * wav.nchannels
BytesPerChunk == (MAX_FILE_SIZE_BYTES * ChunkFillTenths) \div 10
FramesPerChunkNoMargin(wav) == MAX_FILE_SIZE_BYTES \div FrameSize(wav)

FramesPerChunk(wav) == BytesPerChunk \div FrameSize(wav)

\* Frame counts around which the splitter's behaviour changes: no audio, the
\* size threshold, two and a half times the threshold, and whole multiples of
\* a chunk.
BoundaryFrames(frame_size) ==
    {0, (MAX_FILE_SIZE_BYTES - WavHeaderBytes) \div frame_size,
     ((5 * MAX_FILE_SIZE_BYTES) \div 2 - WavHeaderBytes) \div frame_size}
        \cup {k * (BytesPerChunk \div frame_size) : k \in 2..MaxFullChunks}

NearFrames(frame_size) ==
    {b + d : b \in BoundaryFrames(frame_size), d \in (0 - SplitSlack)..SplitSlack}
        \cap Nat

WavFile(sampwidth, nchannels, nframes, meeting_id) ==
    [file_size |-> WavHeaderBytes + nframes * sampwidth * nchannels,
     sampwidth |-> sampwidth, nchannels |-> nchannels, nframes |-> nframes,
     meeting_id |-> meeting_id]

EmptyFile(meeting_id) ==
    [file_size |-> 0, sampwidth |-> 1, nchannels |-> 1, nframes |-> 0,
     meeting_id |-> meeting_id]

WavFiles ==
    {WavFile(w, c, n, m) : w \in 1..2, c \in 1..2,
                           n \in NearFrames(1) \cup NearFrames(2) \cup NearFrames(4),
                           m \in MeetingIds}
        \cup {EmptyFile(m) : m \in MeetingIds}

\* The path handed in, and the path of chunk number part (the meeting ids
\* drawn here are at most eight characters long, as process_meeting cuts them).
OriginalPath == [prefix |-> "", part |-> 0]
ChunkPath(meeting_id, part) == [prefix |-> meeting_id, part |-> part]

EnterSplit(wav) ==
    [pc |-> "call", wav |-> wav, current_frame |-> 0, chunk_index |-> 0,
     chunk_paths |-> <<>>, written |-> <<>>]

NeedsSplitAtThreshold(file_size) == file_size >= MAX_FILE_SIZE_BYTES

NeedsSplit(file_size) == file_size > MAX_FILE_SIZE_BYTES

EndFrameUnclamped(current_frame, frames_per_chunk, total_frames) ==
    current_frame + frames_per_chunk

EndFrame(current_frame, frames_per_chunk, total_frames) ==
    Min(current_frame + frames_per_chunk, total_frames)

InitSplit ==
    /\ InitKeys
    /\ InitFlowVars
    /\ retry_attempts = 1
    /\ InitPoolGhost
    /\ InitThreadVars
    /\ InitMeetingVars
    /\ \E wav \in WavFiles : split = EnterSplit(wav)

\* file_size <= MAX_FILE_SIZE_BYTES: return [audio_file_path].
SplitNotNeeded ==
    /\ split.pc = "call"
    /\ ~NeedsSplit(split.wav.file_size)
    /\ split' = [split EXCEPT !.pc = "returned",
                              !.chunk_paths = <<OriginalPath>>]
    /\ UNCHANGED <<auxVars, keys, flowVars, poolGhost, threadVars, meetingVars>>

\* The file is read and the loop variables are set up.
SplitOpen ==
    /\ split.pc = "call"
    /\ NeedsSplit(split.wav.file_size)
    /\ split' = [split EXCEPT !.pc = "loop", !.current_frame = 0,
                              !.chunk_index = 0]
    /\ UNCHANGED <<auxVars, keys, flowVars, poolGhost, threadVars, meetingVars>>

\* One iteration of the while loop: one chunk file is written.
SplitWriteChunk ==
    /\ split.pc = "loop"
    /\ split.current_frame < split.wav.nframes
    /\ LET wav == split.wav
           end_frame == EndFrame(split.current_frame, FramesPerChunk(wav),
                                 wav.nframes)
           chunk_path == ChunkPath(wav.meeting_id, split.chunk_index + 1)
       IN split' = [split EXCEPT
               !.written = Append(@, [path |-> chunk_path,
                                      from |-> split.current_frame * FrameSize(wav),
                                      to |-> end_frame * FrameSize(wav)]),
               !.chunk_paths = Append(@, chunk_path),
               !.current_frame = end_frame,
               !.chunk_index = @ + 1]
    /\ UNCHANGED <<auxVars, keys, flowVars, poolGhost, threadVars, meetingVars>>

\* The loop condition fails: return chunk_paths.
SplitReturn ==
    /\ split.pc = "loop"
    /\ split.current_frame >= split.wav.nframes
    /\ split' = [split EXCEPT !.pc = "returned"]
    /\ UNCHANGED <<auxVars, keys, flowVars, poolGhost, threadVars, meetingVars>>

NextSplit ==
    \/ SplitNotNeeded
    \/ SplitOpen
    \/ SplitWriteChunk
    \/ SplitReturn

SpecSplit == InitSplit /\ [][NextSplit]_vars

\* split_audio_file is synchronous code: once called it runs on.
SpecSplitLive == SpecSplit /\ WF_vars(NextSplit)

\* ---------------------------------------- SpecMeeting: MeetingService
\* start_meeting, stop_meeting and process_meeting called on one event loop,
\* the recorder being started by the caller of start_meeting.  The calls
\* process_meeting makes to transcribe_audio and generate_report run as
\* pipeline calls of flow ProcFlow against the pool; one process_meeting call
\* is in progress at a time (the window disables its button meanwhile).
\* proc.accepted counts the calls that passed the status check, proc.sent
\* lists the files handed to transcribe_audio and proc.report_calls the
\* arguments of the generate_report calls.
\* proc.pc: "idle", "split" (inside split_audio_file), "transcribe" (at the
\* head of the loop over audio_files), "transcribing" (awaiting
\* transcribe_audio), "reporting" (awaiting generate_report).
ProcFlow == 1
MeetingIdStr == <<"0f8a1c2e", "7b3d9e10", "c45a0f6b", "e9d2b7a3">>
StatusOrder == <<"NotStarted", "Recording", "Stopped", "Processing", "Completed">>

\* Meeting and its methods; trace lists the statuses the object has had.
MeetingCreate ==
    [status |-> "NotStarted", report_path |-> "None", trace |-> <<"NotStarted">>]
SetStatus(meeting, status) ==
    [meeting EXCEPT !.status = status, !.trace = Append(@, status)]
MeetingStart(meeting) == SetStatus(meeting, "Recording")
MeetingStop(meeting) == SetStatus(meeting, "Stopped")
MarkProcessing(meeting) == SetStatus(meeting, "Processing")
MarkCompleted(meeting) == SetStatus(meeting, "Completed")

\* MeetingRepository.save keeps _current_meeting at the last meeting saved
\* while Recording.
SavedCurrent(id, meeting) == IF meeting.status = "Recording" THEN id ELSE current

\* RecordingRepository.get_by_meeting_id: the first recording of the meeting,
\* 0 when there is none.
GetByMeetingId(id) ==
    IF \E r \in 1..Len(recordings) : recordings[r].meeting_id = id
    THEN CHOOSE r \in 1..Len(recordings) :
             /\ recordings[r].meeting_id = id
             /\ \A q \in 1..(r - 1) : recordings[q].meeting_id # id
    ELSE 0

\* Files the recorder writes: 16-bit mono audio, short, of two chunks, and of
\* two and a half times the threshold.
RecordedFiles ==
    {WavFile(2, 1, n, "") :
        n \in {1, 2 * FramesPerChunk(WavFile(2, 1, 0, "")),
               ((5 * MAX_FILE_SIZE_BYTES) \div 2 - WavHeaderBytes) \div 2}}

\* What the transcription service returns for an audio file: len words, each
\* a word of that file.
Word(audio_file) == [kind |-> "word", n |-> audio_file.part]
Transcript(audio_file, len) == [j \in 1..len |-> Word(audio_file)]

\* The pieces of the merged document: "--- Часть N ---" and "\n\n".
Header(n) == [kind |-> "header", n |-> n]
Blank == [kind |-> "blank", n |-> 0]

RECURSIVE JoinParts(_, _)
JoinParts(transcriptions, i) ==
    IF i > Len(transcriptions) THEN <<>>
    ELSE (IF i = 1 THEN <<Header(i), Blank>> ELSE <<Blank, Header(i), Blank>>)
             \o transcriptions[i] \o JoinParts(transcriptions, i + 1)

AssembleFirstPartOnly(transcriptions, total_parts) ==
    IF total_parts > 1
    THEN <<Header(1), Blank>> \o transcriptions[1]
    ELSE IF transcriptions # <<>> THEN transcriptions[1] ELSE <<>>

Assemble(transcriptions, total_parts) ==
    IF total_parts > 1
    THEN JoinParts(transcriptions, 1)
    ELSE IF transcriptions # <<>> THEN transcriptions[1] ELSE <<>>

InitMeeting ==
    /\ InitKeys
    /\ InitFlowVars
    /\ InitPoolGhost
    /\ InitThreadVars
    /\ InitServiceVars

\* start_meeting: refused while the current meeting is Recording; otherwise a
\* meeting is created, started and saved.
StartMeeting ==
    /\ Len(meetings) < MaxMeetings
    /\ ~(current # NoMeeting /\ meetings[current].status = "Recording")
    /\ LET meeting == MeetingStart(MeetingCreate)
           id == Len(meetings) + 1
       IN /\ meetings' = Append(meetings, meeting)
          /\ current' = SavedCurrent(id, meeting)
    /\ UNCHANGED <<auxVars, keys, flowVars, poolGhost, threadVars, split, recordings,
                   is_recording, proc, reports>>

\* AudioRecorder.start_recording for the meeting start_meeting returned.
StartRecording ==
    /\ current # NoMeeting
    /\ meetings[current].status = "Recording"
    /\ ~is_recording
    /\ is_recording' = TRUE
    /\ UNCHANGED <<auxVars, keys, flowVars, poolGhost, threadVars, split, meetings,
                   current, recordings, proc, reports>>

CanStop == current # NoMeeting /\ meetings[current].status = "Recording"

\* stop_meeting: stop_recording() hands back the file, the recording is
\* saved, then the meeting is stopped and saved.
StopMeetingWithoutRecording(wav) ==
    /\ CanStop
    /\ is_recording
    /\ is_recording' = FALSE
    /\ UNCHANGED recordings
    /\ meetings' = [meetings EXCEPT ![current] = MeetingStop(@)]
    /\ current' = SavedCurrent(current, MeetingStop(meetings[current]))
    /\ UNCHANGED <<auxVars, keys, flowVars, poolGhost, threadVars, split, proc, reports>>

StopMeeting(wav) ==
    /\ CanStop
    /\ is_recording
    /\ is_recording' = FALSE
    /\ recordings' = Append(recordings, [meeting_id |-> current, file |-> wav])
    /\ meetings' = [meetings EXCEPT ![current] = MeetingStop(@)]
    /\ current' = SavedCurrent(current, MeetingStop(meetings[current]))
    /\ UNCHANGED <<auxVars, keys, flowVars, poolGhost, threadVars, split, proc, reports>>

\* stop_meeting when the recorder gathered no data: stop_recording() clears
\* is_recording and raises; the meeting stays Recording.
StopMeetingNoData ==
    /\ CanStop
    /\ is_recording
    /\ is_recording' = FALSE
    /\ UNCHANGED <<auxVars, keys, flowVars, poolGhost, threadVars, split, meetings,
                   current, recordings, proc, reports>>

CanProcessAnyStatus(id) == id \in 1..Len(meetings)

CanProcess(id) == id \in 1..Len(meetings) /\ meetings[id].status = "Stopped"

\* process_meeting up to the call of split_audio_file: the meeting must exist
\* and be Stopped; it is marked Processing and saved, then its recording is
\* looked up; without one the call raises.
ProcessBegin(id) ==
    /\ proc.pc = "idle"
    /\ pc[ProcFlow] = "idle"
    /\ CanProcess(id)
    /\ proc.accepted < MaxProcessed
    /\ meetings' = [meetings EXCEPT ![id] = MarkProcessing(@)]
    /\ current' = SavedCurrent(id, MarkProcessing(meetings[id]))
    /\ IF GetByMeetingId(id) = 0
       THEN /\ proc' = [NoProcess EXCEPT !.meeting_id = id,
                                         !.result = "MeetingNotStartedException",
                                         !.accepted = proc.accepted + 1]
            /\ UNCHANGED split
       ELSE /\ proc' = [NoProcess EXCEPT !.pc = "split", !.meeting_id = id,
                                         !.accepted = proc.accepted + 1]
            /\ split' = EnterSplit([recordings[GetByMeetingId(id)].file
                                       EXCEPT !.meeting_id = MeetingIdStr[id]])
    /\ UNCHANGED <<auxVars, keys, flowVars, poolGhost, threadVars, recordings,
                   is_recording, reports>>

\* split_audio_file returned audio_files.
ProcessSplitDone ==
    /\ proc.pc = "split"
    /\ split.pc = "returned"
    /\ proc' = [proc EXCEPT !.pc = "transcribe", !.audio_files = split.chunk_paths,
                            !.i = 0]
    /\ UNCHANGED <<auxVars, keys, flowVars, poolGhost, threadVars, split, meetings,
                   current, recordings, is_recording, reports>>

\* The pipeline call process_meeting awaits is entered.
EnterPipeline ==
    /\ pc[ProcFlow] = "idle"
    /\ pc' = [pc EXCEPT ![ProcFlow] = "loop"]
    /\ attempt' = [attempt EXCEPT ![ProcFlow] = 0]
    /\ used_keys' = [used_keys EXCEPT ![ProcFlow] = {}]
    /\ last_exception' = [last_exception EXCEPT ![ProcFlow] = "None"]
    /\ outcome' = [outcome EXCEPT ![ProcFlow] = "None"]
    /\ resp' = [resp EXCEPT ![ProcFlow] = <<>>]
    /\ tries' = [tries EXCEPT ![ProcFlow] = <<>>]
    /\ UNCHANGED <<boot, keys, retry_attempts, api_key, calls, held>>

\* The pipeline call has returned or raised into process_meeting.
LeavePipeline ==
    /\ pc[ProcFlow] = "done"
    /\ pc' = [pc EXCEPT ![ProcFlow] = "idle"]
    /\ attempt' = [attempt EXCEPT ![ProcFlow] = 0]
    /\ used_keys' = [used_keys EXCEPT ![ProcFlow] = {}]
    /\ last_exception' = [last_exception EXCEPT ![ProcFlow] = "None"]
    /\ outcome' = [outcome EXCEPT ![ProcFlow] = "None"]
    /\ resp' = [resp EXCEPT ![ProcFlow] = <<>>]
    /\ tries' = [tries EXCEPT ![ProcFlow] = <<>>]
    /\ UNCHANGED <<boot, keys, retry_attempts, api_key, calls, held>>

\* Loop over audio_files: transcribe_audio(audio_file) is awaited.
ProcessTranscribe ==
    /\ proc.pc = "transcribe"
    /\ proc.i < Len(proc.audio_files)
    /\ EnterPipeline
    /\ proc' = [proc EXCEPT !.pc = "transcribing",
                            !.sent = Append(@, proc.audio_files[proc.i + 1])]
    /\ UNCHANGED <<boot, poolGhost, threadVars, split, meetings, current, recordings,
                   is_recording, reports>>

ProcessTranscribedRemovesAny(len, removed) ==
    /\ proc.pc = "transcribing"
    /\ outcome[ProcFlow] = "success"
    /\ LeavePipeline
    /\ LET audio_file == proc.audio_files[proc.i + 1]
       IN proc' = [proc EXCEPT
                  !.pc = "transcribe",
                  !.transcriptions = Append(@, Transcript(audio_file, len)),
                  !.deleted = IF removed THEN @ \cup {audio_file} ELSE @,
                  !.not_deleted = IF ~removed THEN @ \cup {audio_file} ELSE @,
                  !.i = @ + 1]
    /\ UNCHANGED <<boot, poolGhost, threadVars, split, meetings, current, recordings,
                   is_recording, reports>>

\* transcribe_audio returned: the text is appended and a chunk file is
\* removed, the original never; a failure to remove is logged (the path then
\* joins proc.not_deleted) and ignored.
ProcessTranscribed(len, removed) ==
    /\ proc.pc = "transcribing"
    /\ outcome[ProcFlow] = "success"
    /\ LeavePipeline
    /\ LET audio_file == proc.audio_files[proc.i + 1]
       IN proc' = [proc EXCEPT
                  !.pc = "transcribe",
                  !.transcriptions = Append(@, Transcript(audio_file, len)),
                  !.deleted = IF audio_file # OriginalPath /\ removed
                              THEN @ \cup {audio_file} ELSE @,
                  !.not_deleted = IF audio_file # OriginalPath /\ ~removed
                                  THEN @ \cup {audio_file} ELSE @,
                  !.i = @ + 1]
    /\ UNCHANGED <<boot, poolGhost, threadVars, split, meetings, current, recordings,
                   is_recording, reports>>

ProcessFailedRevertsToStopped ==
    /\ proc.pc \in {"transcribing", "reporting"}
    /\ pc[ProcFlow] = "done"
    /\ outcome[ProcFlow] # "success"
    /\ proc' = [proc EXCEPT !.pc = "idle", !.result = outcome[ProcFlow]]
    /\ LeavePipeline
    /\ meetings' = [meetings EXCEPT ![proc.meeting_id] = MeetingStop(@)]
    /\ UNCHANGED <<boot, poolGhost, threadVars, split, current, recordings,
                   is_recording, reports>>

\* transcribe_audio or generate_report raised: process_meeting raises too.
ProcessFailed ==
    /\ proc.pc \in {"transcribing", "reporting"}
    /\ pc[ProcFlow] = "done"
    /\ outcome[ProcFlow] # "success"
    /\ proc' = [proc EXCEPT !.pc = "idle", !.result = outcome[ProcFlow]]
    /\ LeavePipeline
    /\ UNCHANGED <<boot, poolGhost, threadVars, split, meetings, current, recordings,
                   is_recording, reports>>

IsMultipartFromOnePart(total_parts) == total_parts >= 1

IsMultipart(total_parts) == total_parts > 1

\* After the loop: the transcriptions are merged and generate_report is
\* awaited with the merged text and is_multipart.
ProcessGenerateReport ==
    /\ proc.pc = "transcribe"
    /\ proc.i >= Len(proc.audio_files)
    /\ EnterPipeline
    /\ LET total_parts == Len(proc.audio_files)
           transcription == Assemble(proc.transcriptions, total_parts)
       IN proc' = [proc EXCEPT
              !.pc = "reporting",
              !.transcription = transcription,
              !.is_multipart = IsMultipart(total_parts),
              !.report_calls = Append(@, [transcription |-> transcription,
                                          is_multipart |-> IsMultipart(total_parts)])]
    /\ UNCHANGED <<boot, poolGhost, threadVars, split, meetings, current, recordings,
                   is_recording, reports>>

CompletedWithoutReport(meeting, report_path) == MarkCompleted(meeting)

Completed(meeting, report_path) ==
    MarkCompleted([meeting EXCEPT !.report_path = report_path])

\* generate_report returned: the report is stored, the meeting gets its path,
\* is marked Completed and saved.
ProcessReported ==
    /\ proc.pc = "reporting"
    /\ outcome[ProcFlow] = "success"
    /\ LeavePipeline
    /\ LET id == proc.meeting_id
           report_path == MeetingIdStr[id]
       IN /\ reports' = reports \cup {report_path}
          /\ meetings' = [meetings EXCEPT ![id] = Completed(@, report_path)]
          /\ current' = SavedCurrent(id, Completed(meetings[id], report_path))
    /\ proc' = [proc EXCEPT !.pc = "idle", !.result = "report"]
    /\ UNCHANGED <<boot, poolGhost, threadVars, split, recordings, is_recording>>

\* generate_report returned but save_report raised (the report file could
\* not be written): process_meeting raises with the meeting as it is.
ProcessStoreFailed ==
    /\ proc.pc = "reporting"
    /\ outcome[ProcFlow] = "success"
    /\ LeavePipeline
    /\ proc' = [proc EXCEPT !.pc = "idle", !.result = "OSError"]
    /\ UNCHANGED <<boot, poolGhost, threadVars, split, meetings, current, recordings,
                   is_recording, reports>>

\* process_meeting on a meeting that exists and is not Stopped: the status
\* check raises MeetingNotStoppedException before anything is changed.
ProcessRejected(id) ==
    /\ proc.pc = "idle"
    /\ pc[ProcFlow] = "idle"
    /\ id \in 1..Len(meetings)
    /\ ~CanProcess(id)
    /\ proc' = [NoProcess EXCEPT !.meeting_id = id,
                                 !.result = "MeetingNotStoppedException",
                                 !.accepted = proc.accepted]
    /\ UNCHANGED <<auxVars, keys, flowVars, poolGhost, threadVars, split, meetings,
                   current, recordings, is_recording, reports>>

NextMeeting ==
    \/ StartMeeting
    \/ StartRecording
    \/ \E wav \in RecordedFiles : StopMeeting(wav)
    \/ StopMeetingNoData
    \/ \E id \in 1..MaxMeetings : ProcessBegin(id)
    \/ \E id \in 1..MaxMeetings : ProcessRejected(id)
    \/ SplitNotNeeded
    \/ SplitOpen
    \/ SplitWriteChunk
    \/ SplitReturn
    \/ ProcessSplitDone
    \/ ProcessTranscribe
    \/ AcquireKey(ProcFlow)
    \/ LoopExhausted(ProcFlow)
    \/ Respond429(ProcFlow)
    \/ RespondError(ProcFlow)
    \/ TransportError(ProcFlow)
    \/ RespondOk(ProcFlow)
    \/ WakeUp(ProcFlow)
    \/ Cancel(ProcFlow)
    \/ \E len \in 0..MaxWords, removed \in BOOLEAN : ProcessTranscribed(len, removed)
    \/ ProcessFailed
    \/ ProcessGenerateReport
    \/ ProcessReported
    \/ ProcessStoreFailed

SpecMeeting == InitMeeting /\ [][NextMeeting]_vars

\* ------------------------------------------------ claims on the pool alone
NumKeys == Cardinality(DOMAIN keys)
Unblocked(ks) == {i \in DOMAIN ks : ~ks[i].is_blocked}

\* C1: every get_available_key picks, among the non-blocked credentials of
\* the pool it sees, the one with the fewest active requests, the lowest
\* index on a tie, and raises exactly that credential's active_requests and
\* total_requests by one; N+1 acquires on N idle non-blocked credentials
\* leave every credential with at least one and exactly one with two.
C1_LeastLoadedSelected ==
    [][lastCall'.op = "get_available_key" =>
        LET c == FindKey(keys, lastCall'.key)
        IN  /\ c # NotFound
            /\ Unblocked(keys) # {} =>
                 /\ c \in Unblocked(keys)
                 /\ \A j \in Unblocked(keys) :
                      \/ keys[c].active_requests < keys[j].active_requests
                      \/ /\ keys[c].active_requests = keys[j].active_requests
                         /\ c <= j
            /\ keys' = [keys EXCEPT ![c].active_requests = @ + 1,
                                    ![c].total_requests = @ + 1]
            /\ (pureAcq' = nops' /\ pureAcq' = NumKeys + 1) =>
                 /\ \A i \in DOMAIN keys : keys'[i].active_requests >= 1
                 /\ Cardinality({i \in DOMAIN keys :
                                   keys'[i].active_requests = 2}) = 1
                 /\ \A i \in DOMAIN keys : keys'[i].active_requests <= 2
      ]_vars

C1_Witness ==
    /\ NumKeys = MaxKeys
    /\ lastCall.op = "get_available_key"
    /\ pureAcq = nops
    /\ pureAcq = MaxKeys + 1
    /\ keys[0].active_requests = 2

\* C5: no credential's active_requests is ever negative, whatever the order
\* and number of get_available_key and release_key calls.
C5_ActiveNeverNegative ==
    \A i \in DOMAIN keys : keys[i].active_requests >= 0

C5_Witness ==
    /\ lastCall.op = "release_key"
    /\ FindKey(keys, lastCall.key) # NotFound
    /\ \A i \in DOMAIN keys : keys[i].total_requests = 0
    /\ nops >= 2

\* C9 as claimed: get_available_key returns a blocked credential only when
\* it is the sole credential of the pool.
C9_FallbackOnlyWhenSole ==
    [][lastCall'.op = "get_available_key" =>
        LET c == FindKey(keys, lastCall'.key)
        IN  keys[c].is_blocked => NumKeys = 1
      ]_vars

\* C9 as amended: while a credential is blocked, get_available_key returns
\* a non-blocked credential as long as one exists; it returns a blocked
\* credential only when every credential of the pool is blocked.
C9_BlockedAvoided ==
    [][lastCall'.op = "get_available_key" =>
        LET c == FindKey(keys, lastCall'.key)
        IN  /\ Unblocked(keys) # {} => ~keys[c].is_blocked
            /\ keys[c].is_blocked => \A j \in DOMAIN keys : keys[j].is_blocked
      ]_vars

C9_Witness ==
    /\ lastCall.op = "get_available_key"
    /\ \E c \in DOMAIN keys :
         /\ keys[c].is_blocked
         /\ keys[c].failed_requests > 0
         /\ ~keys[FindKey(keys, lastCall.key)].is_blocked
         /\ keys[c].active_requests + 1
              < keys[FindKey(keys, lastCall.key)].active_requests

\* C10: unblock_key on a credential of the pool leaves it non-blocked
\* whatever its failed_requests and active_requests and changes nothing
\* else; from then on get_available_key treats it as any non-blocked
\* credential: it is chosen exactly when it has the fewest active requests
\* among the non-blocked ones, the lowest index on a tie.
C10_UnblockRestoresEligibility ==
    [][/\ (lastCall'.op = "unblock_key" /\ FindKey(keys, lastCall'.key) # NotFound) =>
            LET c == FindKey(keys, lastCall'.key)
            IN  /\ keys' = [keys EXCEPT ![c].is_blocked = FALSE]
                /\ c \in AvailableKeys(keys')
                /\ Unblocked(keys') # {}
       /\ (lastCall'.op = "get_available_key" /\ healed # {}) =>
            LET c == FindKey(keys, lastCall'.key)
            IN  \A h \in healed :
                  \/ h = c
                  \/ keys[c].active_requests < keys[h].active_requests
                  \/ keys[c].active_requests = keys[h].active_requests /\ c < h
      ]_vars

C10_Witness ==
    /\ lastCall.op = "get_available_key"
    /\ FindKey(keys, lastCall.key) \in healed
    /\ keys[FindKey(keys, lastCall.key)].failed_requests > 0
    /\ \E j \in Unblocked(keys) :
         /\ j < FindKey(keys, lastCall.key)
         /\ keys[j].failed_requests = 0
         /\ keys[j].active_requests
              >= keys[FindKey(keys, lastCall.key)].active_requests

\* ---------------------------------------------- claims on the pipeline
IsPrefix(s, t) ==
    /\ Len(s) <= Len(t)
    /\ \A i \in 1..Len(s) : s[i] = t[i]

AllAre(s, r) == \A i \in 1..Len(s) : s[i] = r

Ended(f) == pc[f] \in {"idle", "done"}

C3_SucceedsOnThirdAttempt ==
    \A f \in Flows :
        (/\ retry_attempts = 3
         /\ pc[f] = "done"
         /\ outcome[f] # "CancelledError"
         /\ IsPrefix(resp[f], <<"429", "429", "200">>)) =>
            /\ outcome[f] = "success"
            /\ resp[f] = <<"429", "429", "200">>

\* C4: a flow that is not inside a call holds no credential, and once every
\* flow has ended its call (returned, raised or cancelled) every
\* credential's active_requests is 0.
C4_ReleasedOnEveryExit ==
    /\ \A f \in Flows :
         pc[f] \in {"idle", "loop", "done"} =>
             api_key[f] = NoKey /\ held[f] = NotFound
    /\ (\A f \in Flows : Ended(f)) =>
         \A i \in DOMAIN keys : keys[i].active_requests = 0

C4_Witness ==
    /\ \A f \in Flows : pc[f] = "done"
    /\ \E f \in Flows : outcome[f] = "CancelledError" /\ attempt[f] >= 1
    /\ \E f \in Flows : outcome[f] = "ApiException"
    /\ \A i \in DOMAIN keys : keys[i].active_requests = 0

\* C7: a call all of whose responses were 429 ends with
\* ApiRateLimitException.
C7_AllRateLimitedEndsWithRateLimit ==
    \A f \in Flows :
        (/\ pc[f] = "done"
         /\ outcome[f] # "CancelledError"
         /\ AllAre(resp[f], "429")) =>
            outcome[f] = "ApiRateLimitException"

\* C8: a call all of whose requests failed at transport level ends with
\* ApiRequestException after retry_attempts requests.
C8_TransportErrorsRetried ==
    \A f \in Flows :
        (/\ pc[f] = "done"
         /\ outcome[f] # "CancelledError"
         /\ AllAre(resp[f], "ClientError")) =>
            /\ outcome[f] = "ApiRequestException"
            /\ Len(resp[f]) = retry_attempts

\* ------------------------------------------- claims on worker threads
\* C6: pool updates of concurrent flows are serialized, so no update is
\* lost: every credential's active_requests equals the number of scoped
\* acquisitions holding it, also when the flows are separate workers each
\* with an event loop of its own.
C6_ActiveEqualsHolders ==
    \A i \in DOMAIN keys :
        keys[i].active_requests = Cardinality({f \in Flows : held[f] = i})

\* --------------------------------------------------- claims on the splitter
SplitRan == split.pc \in {"loop", "returned"} /\ NeedsSplit(split.wav.file_size)

RECURSIVE SumBytes(_)
SumBytes(ws) == IF ws = <<>> THEN 0
                ELSE (ws[1].to - ws[1].from) + SumBytes(Tail(ws))

\* C11: the chunks split_audio_file writes partition the source frames: the
\* first chunk starts at frame 0, every next chunk starts at the frame where
\* the previous one ended, every chunk holds whole frames, and when the call
\* returns the last chunk ends at the source's frame count, so the chunks'
\* frame counts add up to the source's frame count.
C11_ChunksPartitionFrames ==
    SplitRan =>
        LET ws == split.written
            fs == FrameSize(split.wav)
        IN /\ \A i \in 1..Len(ws) :
                  /\ ws[i].from = (IF i = 1 THEN 0 ELSE ws[i - 1].to)
                  /\ ws[i].from < ws[i].to
                  /\ ws[i].from % fs = 0 /\ ws[i].to % fs = 0
           /\ split.current_frame * fs = SumBytes(ws)
           /\ split.pc = "returned" =>
                  /\ SumBytes(ws) = split.wav.nframes * fs
                  /\ ws # <<>> => ws[Len(ws)].to = split.wav.nframes * fs
                  /\ Len(split.chunk_paths) = Len(ws)

\* A source of two and a half times the threshold was split into three
\* chunks, the last one shorter than the others.
C11_Witness ==
    /\ split.pc = "returned"
    /\ split.wav.file_size = (5 * MAX_FILE_SIZE_BYTES) \div 2
    /\ Len(split.written) = 3
    /\ split.written[3].to - split.written[3].from
           < split.written[1].to - split.written[1].from
    /\ split.written[3].to = split.wav.nframes * FrameSize(split.wav)

\* C12: split_audio_file splits only a file strictly larger than the
\* threshold: for an empty file, a file below the threshold and a file of
\* exactly the threshold it returns the list holding the input path alone
\* and writes no file; a larger file is cut into chunk files.
C12_SplitsOnlyAboveThreshold ==
    /\ split.pc # "idle" /\ split.wav.file_size <= MAX_FILE_SIZE_BYTES =>
           /\ split.written = <<>>
           /\ split.pc # "loop"
           /\ split.pc = "returned" => split.chunk_paths = <<OriginalPath>>
    /\ split.pc = "returned" /\ split.wav.file_size > MAX_FILE_SIZE_BYTES =>
           \A i \in 1..Len(split.chunk_paths) :
               split.chunk_paths[i] = ChunkPath(split.wav.meeting_id, i)

\* A file of exactly the threshold size came back as the input path alone.
C12_Witness ==
    /\ split.pc = "returned"
    /\ split.wav.file_size = MAX_FILE_SIZE_BYTES
    /\ split.chunk_paths = <<OriginalPath>>
    /\ split.written = <<>>

\* ------------------------------------------ claims on the pipeline's bounds
Exceptions == {"ApiRateLimitException", "ApiRequestException", "ApiException",
               "CancelledError"}

\* C16: a pipeline call makes at most retry_attempts loop attempts: it takes
\* a credential only at the head of an attempt numbered below retry_attempts,
\* every return to the head of the loop moves to the next attempt, so it
\* sends at most retry_attempts requests; a call in progress always ends, and
\* it ends with the payload exactly when its last response was the
\* successful one, otherwise with an exception raised to the caller.
C16_BoundedAttempts ==
    \A f \in Flows :
        /\ attempt'[f] <= retry_attempts
        /\ Len(resp'[f]) <= retry_attempts
        /\ Len(resp'[f]) <= attempt'[f] + 1
        /\ held[f] = NotFound /\ held'[f] # NotFound =>
               pc[f] = "loop" /\ attempt[f] < retry_attempts
        /\ pc[f] # "loop" /\ pc'[f] = "loop" =>
               IF pc[f] = "idle" THEN attempt'[f] = 0
               ELSE attempt'[f] = attempt[f] + 1
        /\ pc'[f] = "done" =>
               /\ outcome'[f] \in {"success"} \cup Exceptions
               /\ outcome'[f] = "success" <=>
                      (resp'[f] # <<>> /\ resp'[f][Len(resp'[f])] = "200")
               /\ \A i \in 1..(Len(resp'[f]) - 1) : resp'[f][i] # "200"
        /\ pc'[f] # "done" => outcome'[f] = "None"

C16_CallTerminates ==
    /\ [][C16_BoundedAttempts]_vars
    /\ \A f \in Flows : (pc[f] \in {"loop", "request", "sleep"}) ~> (pc[f] = "done")

\* A call used all of three attempts, sent three requests and raised.
C16_Witness ==
    \E f \in Flows :
        /\ pc[f] = "done"
        /\ retry_attempts = MaxAttempts
        /\ attempt[f] = retry_attempts - 1
        /\ Len(resp[f]) = retry_attempts
        /\ outcome[f] \in Exceptions

\* ------------------------------------------------- claims on the pool lock
\* Positions inside `async with self._lock` of a pool method, and positions
\* at which a worker reads or writes self._keys.
InCriticalSection(f) ==
    pc[f] \in {"a_select", "a_write", "a_unlock", "r_read", "r_write", "r_unlock",
               "b_write", "b_unlock", "bs_unlock"}
AccessesKeys(f) ==
    pc[f] \in {"a_select", "a_write", "r_read", "r_write", "b_write", "stats"}

\* C14: the credential map is read and written only inside the pool's
\* critical section: a worker that is reading or writing self._keys, the
\* statistics and key-count readers included, has taken the lock.
C14_KeysAccessedUnderLock ==
    \A f \in Flows : AccessesKeys(f) => InCriticalSection(f)

\* C15: no pool method keeps the lock while its caller waits for a response
\* or sleeps between attempts: when the lock is taken while a worker waits or
\* sleeps, it is another worker, inside a pool method, that took it; with
\* every worker outside the pool methods the lock is free.
C15_LockFreeWhileWaiting ==
    /\ \A f \in Flows :
           pc[f] \in {"work", "sleep", "unwind"} /\ locked =>
               \E g \in Flows \ {f} : InCriticalSection(g)
    /\ (\A f \in Flows : ~InCriticalSection(f)) => ~locked

\* While one worker sleeps in its backoff with a credential held, another
\* worker has taken the lock and is inside get_available_key.
C15_Witness ==
    \E f \in Flows, g \in Flows :
        /\ pc[f] = "sleep"
        /\ held[f] # NotFound
        /\ pc[g] = "a_write"
        /\ locked

\* ------------------------------------------- claims on the meeting service
IsHeader(token) == token.kind = "header"
IsWord(token) == token.kind = "word"
HeaderAt(doc, n) == CHOOSE p \in 1..Len(doc) : doc[p] = Header(n)

\* The words standing after the header numbered i and before the next header.
PartOfDocument(doc, i, n) ==
    SelectSeq(SubSeq(doc, HeaderAt(doc, i) + 1,
                     IF i < n THEN HeaderAt(doc, i + 1) - 1 ELSE Len(doc)),
              IsWord)

Merged == proc.report_calls # <<>>

\* C13: the merged transcript of a single transcription is that
\* transcription unchanged; of n > 1 transcriptions it is a document whose
\* headers are numbered 1..n in this order, in which the text after header i
\* is the transcription at position i, and the transcription at position i
\* is the one of chunk i.
C13_AssembledInChunkOrder ==
    Merged =>
        LET doc == proc.transcription
            ts == proc.transcriptions
            n == Len(ts)
        IN /\ n = Len(proc.audio_files)
           /\ proc.sent = proc.audio_files
           /\ \A i \in 1..n : \A j \in 1..Len(ts[i]) :
                  ts[i][j] = Word(proc.audio_files[i])
           /\ n = 1 => doc = ts[1]
           /\ n > 1 =>
                  /\ SelectSeq(doc, IsHeader) = [i \in 1..n |-> Header(i)]
                  /\ \A i \in 1..n :
                         /\ proc.audio_files[i].part = i
                         /\ PartOfDocument(doc, i, n) = ts[i]
                  /\ doc[1] = Header(1)

\* Three chunks, each with a non-empty transcript, were merged.
C13_Witness ==
    /\ Merged
    /\ Len(proc.transcriptions) = 3
    /\ \A i \in 1..3 : proc.transcriptions[i] # <<>>
    /\ Len(SelectSeq(proc.transcription, IsHeader)) = 3

\* C17: whatever start_meeting, stop_meeting and process_meeting calls are
\* made, the statuses a meeting has had are an initial piece of NotStarted,
\* Recording, Stopped, Processing, Completed: no step back, no state skipped,
\* nothing after Completed.
C17_StatusMovesForward ==
    \A id \in 1..Len(meetings) :
        /\ IsPrefix(meetings[id].trace, StatusOrder)
        /\ meetings[id].status = meetings[id].trace[Len(meetings[id].trace)]

\* A meeting went through all five statuses.
C17_Witness ==
    \E id \in 1..Len(meetings) :
        /\ meetings[id].status = "Completed"
        /\ meetings[id].trace = StatusOrder

C19_CompletedHasStoredReport ==
    [][\A id \in 1..Len(meetings') :
          meetings'[id].status = "Completed" =>
              /\ meetings'[id].report_path # "None"
              /\ meetings'[id].report_path \in reports'
              /\ (id > Len(meetings) \/ meetings[id].status # "Completed") =>
                     /\ id <= Len(meetings)
                     /\ meetings[id].status = "Processing"
                     /\ proc.meeting_id = id
                     /\ proc.pc = "reporting"
                     /\ outcome[ProcFlow] = "success"
                     /\ Len(proc.report_calls) = 1
                     /\ Len(proc.transcriptions) = Len(proc.audio_files)
                     /\ proc.sent = proc.audio_files]_vars

\* A meeting of three chunks is Completed and its report is stored.
C19_Witness ==
    \E id \in 1..Len(meetings) :
        /\ meetings[id].status = "Completed"
        /\ meetings[id].report_path \in reports
        /\ proc.meeting_id = id
        /\ Len(proc.transcriptions) = 3

RECURSIVE SumRequests(_, _)
SumRequests(ks, n) ==
    IF n = 0 THEN 0 ELSE ks[n - 1].total_requests + SumRequests(ks, n - 1)

\* C20: a processing flow hands the audio files to transcribe_audio one at a
\* time in list order; when it enters the next call the previous one has
\* taken and given back its credential (no credential is held, no request
\* is counted active); it issues at most one generate_report call, only when
\* every file has its transcription, with the merged transcript and with
\* is_multipart true exactly when the split returned more than one chunk.
C20_SequentialThenOneReport ==
    [][/\ IsPrefix(proc'.sent, proc'.audio_files)
       /\ Len(proc'.transcriptions) = proc'.i
       /\ Len(proc'.sent) \in {proc'.i, proc'.i + 1}
       /\ proc'.pc \in {"transcribe", "reporting"} => Len(proc'.sent) = proc'.i
       /\ proc'.pc = "transcribing" => Len(proc'.sent) = proc'.i + 1
       /\ SumRequests(keys', NumKeys) >= Len(proc'.transcriptions)
       /\ Len(proc'.report_calls) <= 1
       /\ proc'.pc \in {"transcribing", "reporting"} /\ proc.pc = "transcribe" =>
              /\ held[ProcFlow] = NotFound
              /\ \A i \in DOMAIN keys : keys[i].active_requests = 0
       /\ proc'.report_calls # <<>> =>
              /\ Len(proc'.transcriptions) = Len(proc'.audio_files)
              /\ proc'.audio_files = split'.chunk_paths
              /\ proc'.report_calls[1].transcription = proc'.transcription
              /\ proc'.report_calls[1].is_multipart = (Len(split'.chunk_paths) > 1)
              /\ SelectSeq(proc'.transcription, IsWord)
                     = SelectSeq(JoinParts(proc'.transcriptions, 1), IsWord)]_vars

\* The report of a two-chunk meeting was requested as multipart after both
\* chunks were transcribed, the second one after a retry.
C20_Witness ==
    /\ proc.pc = "reporting"
    /\ Len(proc.transcriptions) = 2
    /\ proc.report_calls[1].is_multipart
    /\ SumRequests(keys, NumKeys) > 2

\* ------------------------------------------------------------------- C21
Configured(v) == v.set /\ v.body # ""

ZeroConfigured(env) ==
    /\ \A i \in 1..3 : ~Configured(env.numbered[i])
    /\ ~Configured(env.fallback)

\* C21: construction fails with ApiKeyNotFoundException exactly when the
\* environment configures no credential (no non-blank numbered key and no
\* non-blank unnumbered key); after a successful construction the pool
\* holds at least one credential in every state and acquire_key never
\* finds the pool empty.
C21_NonEmptyAfterConstruction ==
    /\ boot.result # "init" =>
           (boot.result = "ApiKeyNotFoundException"
                <=> ZeroConfigured(boot.env))
    /\ boot.result = "ready" =>
           /\ DOMAIN keys # {}
           /\ lastCall.op = "acquire_key" => lastCall.key \in Secrets(keys)

\* A pool built from the unnumbered key alone, the numbered ones being blank
\* or unset, has handed out its credential.
C21_Witness ==
    /\ boot.result = "ready"
    /\ \A i \in 1..3 : ~Configured(boot.env.numbered[i])
    /\ boot.env.numbered[1].set /\ boot.env.numbered[1].pad
    /\ boot.env.fallback.pad
    /\ lastCall.op = "acquire_key"
    /\ lastCall.key = FallbackName
    /\ keys[0].active_requests = 1

\* ------------------------------------------------------------------- C22
\* C22: credentials rotate between the attempts of one call: when a request
\* went out on credential c, failed, and the call went on to another attempt
\* in a pool of at least two credentials, that next attempt sends a request
\* on a credential other than c.
C22_RotatesAfterFailure ==
    \A f \in Flows : \A i \in 2..Len(tries[f]) :
        (tries[f][i - 1].sent /\ NumKeys >= 2) =>
            /\ tries[f][i].sent
            /\ tries[f][i].key # tries[f][i - 1].key

\* ------------------------------------------------------------------- C23
HadError(f) ==
    \E i \in 1..Len(resp[f]) : resp[f][i] \in {"500", "ClientError"}

\* C23: a call ends with the base ApiException only when all retry_attempts
\* attempts ran out and no attempt ended in success, a 429 or a failed
\* request; a call in which some attempt received an error status or a
\* transport error never ends with the base ApiException.
C23_GenericOnlyWithoutTerminalCondition ==
    \A f \in Flows :
        (pc[f] = "done" /\ outcome[f] = "ApiException") =>
            /\ attempt[f] = retry_attempts
            /\ resp[f] = <<>>
            /\ ~HadError(f)

\* ------------------------------------------------------------------- C24
\* The step in which flow f receives the HTTP response r.
Receives(f, r) == resp'[f] = Append(resp[f], r)

\* The bookkeeping of credential i between two states: how failed_requests
\* and is_blocked changed.
Bookkept(i, failed, blocked) ==
    /\ keys'[i].failed_requests = keys[i].failed_requests + failed
    /\ keys'[i].is_blocked = blocked

C24_Step(f) ==
    LET i == held[f]
        status == {"429", "500", "200"}
    IN  (\E r \in status : Receives(f, r)) =>
            /\ i \in DOMAIN keys
            /\ keys[i].key = api_key[f]
            /\ keys[i].active_requests >= 1
            /\ tries[f][Len(tries[f])] = [key |-> api_key[f], sent |-> TRUE]
            /\ Receives(f, "429") => Bookkept(i, 1, TRUE)
            /\ Receives(f, "500") => Bookkept(i, 1, keys[i].is_blocked)
            /\ Receives(f, "200") =>
                   /\ Bookkept(i, 0, FALSE)
                   /\ pc'[f] = "done"
                   /\ outcome'[f] = "success"
                   /\ tries'[f] = tries[f]
            /\ \A j \in DOMAIN keys \ {i} :
                   Bookkept(j, 0, keys[j].is_blocked)

\* C24: every HTTP response of an attempt makes one bookkeeping change, on
\* the credential the attempt holds and on no other: a 429 adds one to
\* failed_requests and sets is_blocked, another status >= 400 adds one to
\* failed_requests and leaves is_blocked as it was, a success clears
\* is_blocked, touches no failure count and ends the call with the body.
C24_BookkeepingPerResponse == [][\A f \in Flows : C24_Step(f)]_vars

\* One call was rate limited and then succeeded on another credential, the
\* other call got an error status: one credential is blocked with one
\* failure, and the failures of the pool are those two responses.
C24_Witness ==
    \E f, g \in Flows :
        /\ resp[f] = <<"429", "200">>
        /\ outcome[f] = "success"
        /\ resp[g] = <<"500">>
        /\ \E i \in DOMAIN keys :
               keys[i].is_blocked /\ keys[i].failed_requests >= 1
        /\ \E i \in DOMAIN keys :
               ~keys[i].is_blocked /\ keys[i].failed_requests >= 1

\* ------------------------------------------------------------------- C25
AllBlocked(ks) == \A i \in DOMAIN ks : ks[i].is_blocked

\* The step is a get_available_key that returned credential i.
Returned(i) ==
    /\ lastCall'.op = "get_available_key"
    /\ nops' = nops + 1
    /\ lastCall'.key = keys[i].key
    /\ keys'[i].active_requests = keys[i].active_requests + 1

C25_Step ==
    (lastCall'.op = "get_available_key" /\ nops' = nops + 1) =>
        /\ \E i \in DOMAIN keys : Returned(i)
        /\ \A j \in DOMAIN keys : keys'[j].is_blocked = keys[j].is_blocked
        /\ AllBlocked(keys) =>
               \A i \in DOMAIN keys : Returned(i) =>
                   \A j \in DOMAIN keys :
                       \/ keys[i].active_requests < keys[j].active_requests
                       \/ /\ keys[i].active_requests = keys[j].active_requests
                          /\ i <= j

\* C25: get_available_key never changes an is_blocked flag, and when every
\* credential is blocked it still returns one: the credential with the
\* fewest active requests of the whole pool, the lowest index on ties, which
\* stays blocked.
C25_DegradedModeKeepsFlags == [][C25_Step]_vars

\* In a pool of two blocked credentials the second one, less loaded than the
\* first, was handed out and is still blocked.
C25_Witness ==
    /\ NumKeys = 2
    /\ AllBlocked(keys)
    /\ lastCall.op = "get_available_key"
    /\ lastCall.key = keys[1].key
    /\ keys[0].active_requests = 1
    /\ keys[1].active_requests = 1

\* ------------------------------------------------------------------- C26
IsBlocked(i) == i \in DOMAIN keys /\ keys[i].is_blocked

\* C26: blocking heals: in a pool of at least two credentials, when the
\* flows keep issuing calls and every request after a block is answered
\* with success, a blocked credential is eventually unblocked again.
C26_BlockedEventuallyUnblocked ==
    \A i \in 0..(MaxKeys - 1) :
        (NumKeys >= 2 /\ IsBlocked(i)) ~> ~IsBlocked(i)

\* ------------------------------------------------------------------- C27
CeilDiv(a, b) == (a + b - 1) \div b

ChunkBytes(w) == w.to - w.from

C27_ChunkSizes ==
    SplitRan =>
        LET wav == split.wav
            ws == split.written
            fs == wav.sampwidth * wav.nchannels
            budget == (9 * MAX_FILE_SIZE_BYTES) \div 10
            fpc == budget \div fs
            n == CeilDiv(wav.nframes, fpc)
        IN  /\ fpc >= 1
            /\ Len(ws) <= n
            /\ \A i \in 1..Len(ws) :
                   /\ ChunkBytes(ws[i]) <= budget
                   /\ i < n => ChunkBytes(ws[i]) = fpc * fs
            /\ split.pc = "returned" =>
                   /\ Len(ws) = n
                   /\ ChunkBytes(ws[n]) = (wav.nframes - (n - 1) * fpc) * fs
                   /\ ChunkBytes(ws[n]) >= fs
                   /\ ChunkBytes(ws[n]) <= fpc * fs

\* C27: a file that is split is cut into ceil(total frames / frames per
\* chunk) chunks, frames per chunk being floor(floor(0.9 x threshold) /
\* frame size) >= 1; every chunk but the last holds exactly that many
\* frames, the last holds the frames that remain, at least one and no
\* padding, so no chunk's frames exceed 0.9 x threshold bytes; and the
\* splitting loop ends.
C27_ChunkCountAndTermination ==
    /\ []C27_ChunkSizes
    /\ (split.pc \in {"call", "loop"}) ~> (split.pc = "returned")

\* A source of exactly two full chunks came back as two chunks of the
\* nominal size.
C27_Witness ==
    /\ split.pc = "returned"
    /\ Len(split.written) = 2
    /\ split.wav.nframes
           = 2 * (((9 * MAX_FILE_SIZE_BYTES) \div 10) \div FrameSize(split.wav))
    /\ ChunkBytes(split.written[1]) = ChunkBytes(split.written[2])

\* ------------------------------------------------------------------- C28
\* The chunk files among the first n entries of audio_files.
ChunkFiles(n) == {proc.audio_files[j] : j \in 1..n} \ {OriginalPath}

\* C28 as claimed: the original recording is never deleted, a chunk file is
\* deleted only after its own transcription has returned, and once the
\* processing flow has completed with the report no chunk file remains.
C28_NoChunkRemains ==
    /\ OriginalPath \notin proc.deleted
    /\ proc.deleted \subseteq ChunkFiles(proc.i)
    /\ proc.result = "report" =>
           ChunkFiles(Len(proc.audio_files)) \subseteq proc.deleted

C28_State ==
    /\ OriginalPath \notin proc.deleted
    /\ proc.deleted \cap proc.not_deleted = {}
    /\ proc.deleted \cup proc.not_deleted = ChunkFiles(proc.i)
    /\ proc.result = "report" => proc.i = Len(proc.audio_files)

C28_Step ==
    /\ split' # split => proc'.deleted \subseteq proc.deleted
    /\ proc'.deleted \ proc.deleted # {} =>
           /\ proc.pc = "transcribing"
           /\ outcome[ProcFlow] = "success"
           /\ proc'.i = proc.i + 1
           /\ proc'.deleted = proc.deleted \cup {proc.audio_files[proc'.i]}

\* C28 amended: the original recording is never deleted; split_audio_file
\* deletes nothing; a chunk file is deleted only by process_meeting, in the
\* step in which its own transcription returned; every transcribed chunk is
\* either deleted or its removal failed and was ignored, so after a flow
\* that completed the chunk files that remain are those whose removal
\* failed.
C28_ChunksRemovedUnlessRemovalFails == []C28_State /\ [][C28_Step]_vars

\* A flow over three chunks completed with two chunks removed and one left
\* behind by a failed removal.
C28_Witness ==
    /\ proc.result = "report"
    /\ Len(proc.audio_files) = 3
    /\ Cardinality(proc.deleted) = 2
    /\ proc.not_deleted = {proc.audio_files[2]}

\* ------------------------------------------------------------------- C29
\* The attempts of flow f's call on which a request went out.
SentTries(f) == {i \in 1..Len(tries[f]) : tries[f][i].sent}

C29_State ==
    \A f \in Flows :
        /\ \A i, j \in SentTries(f) :
               tries[f][i].key = tries[f][j].key => i = j
        /\ \A j \in 1..Len(tries[f]) :
               ~tries[f][j].sent =>
                   \E i \in SentTries(f) :
                       i < j /\ tries[f][i].key = tries[f][j].key
        /\ Len(resp[f]) <= Cardinality(SentTries(f))
        /\ Cardinality(SentTries(f)) <= Min(retry_attempts, NumKeys)
        /\ Len(tries[f]) <= retry_attempts

\* An attempt that acquired a credential used earlier in the call: it sent
\* nothing and sleeps holding the credential; when the sleep ends the
\* credential is released and the attempt is spent.
Skipping(f) ==
    /\ pc[f] = "sleep"
    /\ tries[f] # <<>>
    /\ ~tries[f][Len(tries[f])].sent

C29_Step ==
    \A f \in Flows :
        /\ (Skipping(f) /\ pc'[f] # "sleep") =>
               /\ resp'[f] = resp[f]
               /\ held[f] \in DOMAIN keys
               /\ keys'[held[f]].active_requests
                      = keys[held[f]].active_requests - 1
               /\ held'[f] = NotFound
               /\ pc'[f] = "loop" => attempt'[f] = attempt[f] + 1
        /\ Skipping(f)' => resp'[f] = resp[f]

\* C29: within one call no credential carries more than one request: an
\* attempt that acquired a credential already used in the call sends
\* nothing, sleeps, releases the credential and uses up the attempt; so a
\* call sends at most min(retry_attempts, number of credentials) requests.
C29_OneRequestPerCredential == []C29_State /\ [][C29_Step]_vars

\* A call of three attempts in a pool of two credentials: requests on both
\* credentials, the third attempt skipped, the loop exhausted.
C29_Witness ==
    \E f \in Flows :
        /\ NumKeys = 2
        /\ retry_attempts = 3
        /\ pc[f] = "done"
        /\ Len(tries[f]) = 3
        /\ Cardinality(SentTries(f)) = 2
        /\ Len(resp[f]) = 2

\* ------------------------------------------------------------------- C30
\* What process_meeting raises when a step after mark_processing fails.
FailureResults == Exceptions \cup {"MeetingNotStartedException", "OSError"}

\* Meeting id was marked Processing and no process_meeting call is working
\* on it: the call that marked it has failed.
Failed(id) ==
    /\ id \in 1..Len(meetings)
    /\ meetings[id].status = "Processing"
    /\ ~(proc.pc # "idle" /\ proc.meeting_id = id)

C30_State ==
    (proc.pc = "idle" /\ proc.result \in FailureResults) =>
        /\ Failed(proc.meeting_id)
        /\ proc.i < Len(proc.audio_files) => proc.report_calls = <<>>

C30_Step ==
    \A id \in 1..Len(meetings) :
        /\ (/\ proc.pc = "transcribing"
            /\ proc.meeting_id = id
            /\ proc'.result \in FailureResults) => proc'.report_calls = <<>>
        /\ Failed(id) =>
               /\ meetings'[id] = meetings[id]
               /\ proc'.accepted > proc.accepted => proc'.meeting_id # id
               /\ (proc' # proc /\ proc.pc = "idle" /\ proc'.meeting_id = id) =>
                      /\ proc'.pc = "idle"
                      /\ proc'.result = "MeetingNotStoppedException"
                      /\ proc'.report_calls = <<>>

\* C30: a process_meeting call that fails after marking the meeting
\* Processing (no recording, a transcription error, a report-generation
\* error, a report that cannot be stored) leaves it Processing; the meeting
\* never becomes Completed or Stopped afterwards, no generate_report call
\* follows a failed transcription, and every later process_meeting call for
\* the meeting is rejected with MeetingNotStoppedException.
C30_FailedMeetingStaysProcessing == []C30_State /\ [][C30_Step]_vars

\* A meeting whose processing failed is still Processing and a later
\* process_meeting call for it has just been rejected.
C30_Witness ==
    /\ Failed(proc.meeting_id)
    /\ proc.pc = "idle"
    /\ proc.result = "MeetingNotStoppedException"
    /\ proc.accepted = 1
    /\ \A id \in 1..Len(meetings) : meetings[id].status # "Completed"

====
